---------------------------- MODULE Spec2Model ----------------------------
(***************************************************************************)
(* Model of the RuuviTag collector in src/src/main.rs.                     *)
(*                                                                         *)
(*  - RuuviData::new  : the bit-field decoder (operators below).           *)
(*  - RustSniffer     : new / start / discover / update_data / send_data,  *)
(*                      the single task from await point to await point.   *)
(*                                                                         *)
(* Floating point fields are carried as exact decimals in a fixed unit     *)
(* (f32 rounding is not modelled):                                         *)
(*    temperature    in 1/1000 degree C     (raw * 0.005  -> raw * 5)      *)
(*    humidity       in 1/10000 percent RH  (raw * 0.0025 -> raw * 25)     *)
(*    acceleration_* in 1/1000 g            (raw / 1000.0 -> raw, signed)  *)
(*    voltage        in 1/1000 V            (raw*0.001+1.6 -> raw + 1600)  *)
(***************************************************************************)
EXTENDS Integers, Sequences, FiniteSets, TLC

VARIABLES
    \* ---- environment, fixed during a run ----
    overflow_checks,  \* build profile: TRUE = integer overflow panics (debug)
    adapters,         \* number of adapters manager.adapters() returns
    profile,          \* per hardware address: how the device behaves
    iter_order,       \* order in which the HashMap self.ruuvis iterates
    payloads,         \* the values a notification of a device may carry
    \* ---- environment, changing ----
    visible,          \* addresses adapter.peripherals() currently lists
    faults,           \* number of transient transport/sink errors so far
    \* ---- RustSniffer fields ----
    tag_names,        \* configured name -> address
    delay,            \* configured period (delay_in_secs)
    ruuvis,           \* found name -> peripheral (its address)
    \* ---- control state of start / discover / update_data ----
    pc,               \* position of the task
    adapter_i,        \* index of `for adapter in adapter_list.iter()`
    todo,             \* entries the running `for .. in self.ruuvis.iter()` has left
    cur,              \* name the running loop body works on (0 = none)
    notified,         \* <<data.value>> of the notification the read got, or << >>
    ruuvi_datas,      \* update_data's local Vec<RuuviData>
    tick,             \* number of poll ticks started
    \* ---- the sink ----
    sink,             \* batches the sink accepted, in order
    write_failed,     \* ticks whose write returned an error
    \* ---- transport-level history of each peripheral ----
    state,            \* connection state per address
    subscribed,       \* addresses for which subscribe() has returned Ok
    failed_at,        \* address whose transport call failed last (0 = none)
    \* ---- the clock of the poll loop, in seconds ----
    now,              \* Instant::now()
    continue_time,    \* the tick's continue_time
    starts,           \* start time of every tick so far
    works,            \* time update_data took in every tick so far
    \* ---- decoder harness ----
    raw_data,         \* input buffer of RuuviData::new
    decoded,          \* its result
    point             \* the DataPoint send_data builds from it

vars == <<overflow_checks, adapters, profile, iter_order, payloads, visible, faults,
          tag_names, delay, ruuvis,
          pc, adapter_i, todo, cur, notified, ruuvi_datas, tick, sink,
          write_failed, state, subscribed, failed_at,
          now, continue_time, starts, works, raw_data, decoded, point>>

envVars  == <<overflow_checks, adapters, profile, iter_order, payloads,
              tag_names, delay>>
sysVars  == <<visible, faults, ruuvis, pc, adapter_i, todo, cur, notified,
              ruuvi_datas, tick, sink, write_failed, state, subscribed,
              failed_at>>
timeVars == <<now, continue_time, starts, works>>
decVars  == <<raw_data, decoded, point>>

-----------------------------------------------------------------------------
(* Bounds of the model.                                                    *)

NumTags       == 2    \* configured tags
MaxAdapters   == 2    \* adapters the host may have
MaxFaults     == 2    \* transient errors injected in one run
MaxTicks      == 2    \* poll ticks counted and recorded; later ones run unrecorded
MaxPayloadLen == 19   \* longest buffer handed to the decoder
MaxDelay      == 3    \* longest configured period, in seconds
MaxWork       == 4    \* longest time one update_data takes, in seconds
MaxTimedTicks == 4    \* ticks whose start time is recorded

(* Program constants.                                                      *)

U16           == 65536   \* 2^16, the width of tx_power: u16
PressureBase  == 50000   \* + 50_000
TxOffset      == 40      \* - 40
VoltageBase   == 1600    \* + 1.6 V, in mV

-----------------------------------------------------------------------------
(* bitreader::BitReader as RuuviData::new uses it: a byte slice and a bit  *)
(* cursor; a read past the end is an error and leaves the cursor alone.    *)

Pow2(n) == 2 ^ n

BitReader_new(bytes) == [data |-> bytes, position |-> 0]

BitLength(reader) == 8 * Len(reader.data)

\* bit i of the buffer, most significant bit of byte 0 first
BitAt(bytes, i) == (bytes[(i \div 8) + 1] \div Pow2(7 - (i % 8))) % 2

RECURSIVE BitsValue(_, _, _)
BitsValue(bytes, pos, n) ==
    IF n = 0 THEN 0
    ELSE 2 * BitsValue(bytes, pos, n - 1) + BitAt(bytes, pos + n - 1)

\* reader.skip(n)
BitReader_skip(reader, n) ==
    IF reader.position + n > BitLength(reader)
    THEN [ok |-> FALSE, value |-> 0, reader |-> reader]
    ELSE [ok |-> TRUE, value |-> 0,
          reader |-> [reader EXCEPT !.position = @ + n]]

\* reader.read_u8 / read_u16 / read_u32 (n bits, unsigned, big-endian)
BitReader_read_u(reader, n) ==
    IF reader.position + n > BitLength(reader)
    THEN [ok |-> FALSE, value |-> 0, reader |-> reader]
    ELSE [ok |-> TRUE, value |-> BitsValue(reader.data, reader.position, n),
          reader |-> [reader EXCEPT !.position = @ + n]]

\* reader.read_i16 (n bits, two's complement)
BitReader_read_i(reader, n) ==
    LET u == BitReader_read_u(reader, n)
    IN  IF ~u.ok THEN u
        ELSE [u EXCEPT !.value = IF @ >= Pow2(n - 1) THEN @ - Pow2(n) ELSE @]

-----------------------------------------------------------------------------
(* RuuviData::new.  The result is                                          *)
(*   [kind |-> "Ok", ...fields]   Ok(RuuviData)                            *)
(*   [kind |-> "Err"]             Err(..) from a `?`                       *)
(*   [kind |-> "Panic"]           the call does not return (unwrap, or an  *)
(*                                overflow check of a debug build)         *)

DecodeErr   == [kind |-> "Err"]
DecodePanic == [kind |-> "Panic"]

\* `read_u16(5)? * 2 - 40` in u16: below zero the build decides, a panic with
\* overflow checks and a wrapped value without.
TxPower(raw, checks) ==
    IF raw * 2 - TxOffset >= 0 THEN [ok |-> TRUE, value |-> raw * 2 - TxOffset]
    ELSE IF checks THEN [ok |-> FALSE, value |-> 0]
    ELSE [ok |-> TRUE, value |-> (raw * 2 - TxOffset) % U16]

RuuviData_new(name, mac_address, bytes, checks) ==
    LET s0 == BitReader_skip(BitReader_new(bytes), 8) IN
    IF ~s0.ok THEN DecodePanic ELSE
    LET f1 == BitReader_read_u(s0.reader, 16) IN
    IF ~f1.ok THEN DecodeErr ELSE
    LET f2 == BitReader_read_u(f1.reader, 16) IN
    IF ~f2.ok THEN DecodeErr ELSE
    LET f3 == BitReader_read_u(f2.reader, 16) IN
    IF ~f3.ok THEN DecodeErr ELSE
    LET f4 == BitReader_read_i(f3.reader, 16) IN
    IF ~f4.ok THEN DecodeErr ELSE
    LET f5 == BitReader_read_i(f4.reader, 16) IN
    IF ~f5.ok THEN DecodeErr ELSE
    LET f6 == BitReader_read_i(f5.reader, 16) IN
    IF ~f6.ok THEN DecodeErr ELSE
    LET f7 == BitReader_read_u(f6.reader, 11) IN
    IF ~f7.ok THEN DecodeErr ELSE
    LET f8 == BitReader_read_u(f7.reader, 5) IN
    IF ~f8.ok THEN DecodeErr ELSE
    LET tx == TxPower(f8.value, checks) IN
    IF ~tx.ok THEN DecodePanic ELSE
    LET f9 == BitReader_read_u(f8.reader, 8) IN
    IF ~f9.ok THEN DecodeErr ELSE
    LET f10 == BitReader_read_u(f9.reader, 16) IN
    IF ~f10.ok THEN DecodeErr ELSE
    [kind                 |-> "Ok",
     name                 |-> name,
     mac_address          |-> mac_address,
     temperature          |-> f1.value * 5,
     humidity             |-> f2.value * 25,
     pressure             |-> f3.value + PressureBase,
     acceleration_x       |-> f4.value,
     acceleration_y       |-> f5.value,
     acceleration_z       |-> f6.value,
     voltage              |-> f7.value + VoltageBase,
     tx_power             |-> tx.value,
     movement_counter     |-> f9.value,
     measurement_sequence |-> f10.value]

\* The DataPoint send_data builds from one RuuviData: two tags and ten fields;
\* `as i64` of an unsigned value keeps the value.
DataPointOf(data) ==
    [name                 |-> data.name,
     mac                  |-> data.mac_address,
     temperature          |-> data.temperature,
     humidity             |-> data.humidity,
     pressure             |-> data.pressure,
     acceleration_x       |-> data.acceleration_x,
     acceleration_y       |-> data.acceleration_y,
     acceleration_z       |-> data.acceleration_z,
     voltage              |-> data.voltage,
     tx_power             |-> data.tx_power,
     movement_counter     |-> data.movement_counter,
     measurement_sequence |-> data.measurement_sequence]

-----------------------------------------------------------------------------
(* Configuration and environment.                                          *)

Names == 1 .. NumTags

\* config.json "tags": the hardware address configured for a name
ConfigAddr(n) == 100 + n

Addrs == {ConfigAddr(n) : n \in Names}

\* How a device behaves for the whole run:
\*   healthy  advertises, connects, has the notify characteristic, notifies
\*   absent   never shows up in adapter.peripherals()
\*   nochar   connects, but lists no NOTIFY characteristic with the known UUID
\*   silent   connects and subscribes, but never delivers a notification
Profiles == {"healthy", "absent", "nochar", "silent"}

\* Connection state of a peripheral, from the calls made on it and their results
States == {"Unseen", "Discovered", "Connecting", "Connected", "Subscribed", "Failed"}

\* A published Data Format 5 payload (05 12FC 5394 C37C 0004 FFFC 040C AC36 42
\* 00CD ...): 24.3 C, 53.49 %, 100044 Pa, 0.004 / -0.004 / 1.036 g, 2.977 V,
\* +4 dBm, movement 66, sequence 205.
GoodPayload ==
    <<5, 18, 252, 83, 148, 195, 124, 0, 4, 255, 252, 4, 12, 172, 54, 66, 0, 205>>

\* the same with tx raw = 0 (-40 dBm)
LowTxPayload == [GoodPayload EXCEPT ![15] = 32]

\* a notification cut short, and an empty one
ShortPayload == SubSeq(GoodPayload, 1, 5)
EmptyPayload == << >>

\* values a notification may carry in a poll tick
TickPayloads == {GoodPayload, LowTxPayload, ShortPayload, EmptyPayload}

NoData == [kind |-> "None"]

EmptyMap == [n \in {} |-> 0]

\* self.ruuvis.iter(): the names of the table in the map's order.  The table is
\* not changed between two iterations, so every iteration runs in one order.
Iter(rv, order) == SelectSeq(order, LAMBDA n : n \in DOMAIN rv)

\* addresses of the peripherals in a found-table
AddrsIn(rv) == {rv[n] : n \in DOMAIN rv}

-----------------------------------------------------------------------------
(* RustSniffer::new and the state before start() runs.                     *)

RustSniffer_new(tags, delay_in_secs) ==
    /\ tag_names = tags
    /\ ruuvis = EmptyMap
    /\ delay = delay_in_secs

\* config.json with a different address for every name
ConfigTags == [n \in Names |-> ConfigAddr(n)]

\* the clock is not followed (the timing of the poll loop is in TimeSpec)
ClockUnused ==
    /\ now = 0
    /\ continue_time = 0
    /\ starts = << >>
    /\ works = << >>

Init ==
    /\ overflow_checks \in BOOLEAN
    /\ adapters \in 0 .. MaxAdapters
    /\ profile \in [Addrs -> Profiles]
    /\ iter_order \in Permutations(Names)
    /\ payloads = TickPayloads
    /\ visible = {}
    /\ faults = 0
    /\ RustSniffer_new(ConfigTags, MaxDelay)
    /\ pc = "discover"
    /\ adapter_i = 0
    /\ todo = << >>
    /\ cur = 0
    /\ notified = << >>
    /\ ruuvi_datas = << >>
    /\ tick = 0
    /\ sink = << >>
    /\ write_failed = {}
    /\ state = [a \in Addrs |-> "Unseen"]
    /\ subscribed = {}
    /\ failed_at = 0
    /\ ClockUnused
    /\ raw_data = << >>
    /\ decoded = NoData
    /\ point = << >>

-----------------------------------------------------------------------------
(* RustSniffer::discover, called from the retry loop of start().           *)

\* discover() returned Err: start prints and sleeps one second
DiscoverFailed == pc' = "retry"

\* line 118: Manager::new().await?
DiscoverBegin ==
    /\ pc = "discover"
    /\ \/ /\ faults < MaxFaults            \* Manager::new()? fails
          /\ faults' = faults + 1
          /\ DiscoverFailed
       \/ /\ pc' = "adapters"
          /\ UNCHANGED faults
    /\ UNCHANGED <<envVars, decVars, timeVars, failed_at, notified, visible, ruuvis,
                   adapter_i, todo, cur, ruuvi_datas, tick, sink, write_failed,
                   state, subscribed>>

\* lines 119-123: manager.adapters().await?, and the return of Ok(()) when the
\* list is empty
Adapters ==
    /\ pc = "adapters"
    /\ \/ /\ faults < MaxFaults            \* adapters()? fails
          /\ faults' = faults + 1
          /\ DiscoverFailed
          /\ UNCHANGED adapter_i
       \/ /\ adapters = 0                  \* "No Bluetooth adapters found": Ok(())
          /\ pc' = "poll"
          /\ UNCHANGED <<faults, adapter_i>>
       \/ /\ adapters > 0
          /\ adapter_i' = 1
          /\ pc' = "start_scan"
          /\ UNCHANGED faults
    /\ UNCHANGED <<envVars, decVars, timeVars, failed_at, notified, visible, ruuvis, todo, cur,
                   ruuvi_datas,
                   tick, sink, write_failed, state, subscribed>>

\* lines 126-130: adapter.start_scan(..).await.expect(..)
StartScan ==
    /\ pc = "start_scan"
    /\ \/ /\ pc' = "scan"
          /\ UNCHANGED faults
       \/ /\ faults < MaxFaults            \* expect() on an Err
          /\ faults' = faults + 1
          /\ pc' = "panicked"
    /\ UNCHANGED <<envVars, decVars, timeVars, failed_at, notified, visible, ruuvis, adapter_i,
                   todo, cur,
                   ruuvi_datas, tick, sink, write_failed, state, subscribed>>

\* lines 133-135: all configured tags found, leave the scan loop; after the
\* last adapter the connect loop starts over self.ruuvis
ScanDone ==
    /\ pc = "scan"
    /\ Cardinality(DOMAIN tag_names) = Cardinality(DOMAIN ruuvis)
    /\ IF adapter_i < adapters
       THEN /\ adapter_i' = adapter_i + 1
            /\ pc' = "start_scan"
            /\ UNCHANGED todo
       ELSE /\ pc' = "connect_loop"
            /\ todo' = Iter(ruuvis, iter_order)
            /\ UNCHANGED adapter_i
    /\ UNCHANGED <<envVars, decVars, timeVars, failed_at, notified, visible, faults, ruuvis, cur,
                   ruuvi_datas,
                   tick, sink, write_failed, state, subscribed>>

\* lines 139-151: for every configured (name, mac), in the map's order, insert
\* the listed peripheral with that address unless a found peripheral has it
RECURSIVE InsertFound(_, _, _, _)
InsertFound(rv, tn, order, peripherals) ==
    IF order = << >> THEN rv
    ELSE LET name == Head(order)
             mac  == tn[name]
             next == IF mac \in peripherals /\ mac \notin AddrsIn(rv)
                     THEN [m \in DOMAIN rv \cup {name} |->
                              IF m = name THEN mac ELSE rv[m]]
                     ELSE rv
         IN  InsertFound(next, tn, Tail(order), peripherals)

\* line 136: a tag is still missing, sleep one second
ScanSleep ==
    /\ pc = "scan"
    /\ Cardinality(DOMAIN tag_names) # Cardinality(DOMAIN ruuvis)
    /\ pc' = "peripherals"
    /\ UNCHANGED <<envVars, decVars, timeVars, failed_at, notified, visible, faults, ruuvis,
                   adapter_i, todo, cur, ruuvi_datas, tick, sink, write_failed,
                   state, subscribed>>

\* lines 137-151: the rest of a round of the scan loop
ScanRound ==
    /\ pc = "peripherals"
    /\ \/ /\ faults < MaxFaults            \* peripherals()? fails
          /\ faults' = faults + 1
          /\ DiscoverFailed
          /\ UNCHANGED <<ruuvis, state>>
       \/ /\ \E order \in Permutations(DOMAIN tag_names) :
                ruuvis' = InsertFound(ruuvis, tag_names, order, visible)
          /\ state' = [a \in Addrs |->
                          IF a \in AddrsIn(ruuvis') \ AddrsIn(ruuvis)
                          THEN "Discovered" ELSE state[a]]
          /\ pc' = "scan"
          /\ UNCHANGED faults
    /\ UNCHANGED <<envVars, decVars, timeVars, failed_at, notified, visible, adapter_i, todo, cur,
                   ruuvi_datas,
                   tick, sink, write_failed, subscribed>>

\* line 156: ruuvi.connect() is called on the next entry of self.ruuvis
ConnectCall ==
    /\ pc = "connect_loop"
    /\ todo # << >>
    /\ cur' = Head(todo)
    /\ todo' = Tail(todo)
    /\ state' = [state EXCEPT ![ruuvis[Head(todo)]] = "Connecting"]
    /\ pc' = "connecting"
    /\ UNCHANGED <<envVars, decVars, timeVars, failed_at, notified, visible, faults, ruuvis,
                   adapter_i,
                   ruuvi_datas, tick, sink, write_failed, subscribed>>

\* line 156: connect().await?
ConnectReturn ==
    /\ pc = "connecting"
    /\ \/ /\ state' = [state EXCEPT ![ruuvis[cur]] = "Connected"]
          /\ pc' = "discover_services"
          /\ UNCHANGED <<faults, failed_at>>
       \/ /\ faults < MaxFaults
          /\ faults' = faults + 1
          /\ state' = [state EXCEPT ![ruuvis[cur]] = "Failed"]
          /\ failed_at' = ruuvis[cur]
          /\ DiscoverFailed
    /\ UNCHANGED <<envVars, decVars, timeVars, notified, visible, ruuvis, adapter_i,
                   todo, cur,
                   ruuvi_datas, tick, sink, write_failed, subscribed>>

\* line 157: discover_services().await?
DiscoverServices ==
    /\ pc = "discover_services"
    /\ \/ /\ pc' = "characteristics"
          /\ UNCHANGED <<faults, state, failed_at>>
       \/ /\ faults < MaxFaults
          /\ faults' = faults + 1
          /\ state' = [state EXCEPT ![ruuvis[cur]] = "Failed"]
          /\ failed_at' = ruuvis[cur]
          /\ DiscoverFailed
    /\ UNCHANGED <<envVars, decVars, timeVars, notified, visible, ruuvis, adapter_i,
                   todo, cur,
                   ruuvi_datas, tick, sink, write_failed, subscribed>>

\* lines 158-165: subscribe to the first matching characteristic, if there is one
Subscribe ==
    /\ pc = "characteristics"
    /\ \/ /\ profile[ruuvis[cur]] # "nochar"
          /\ state' = [state EXCEPT ![ruuvis[cur]] = "Subscribed"]
          /\ subscribed' = subscribed \cup {ruuvis[cur]}
          /\ pc' = "is_connected"
          /\ UNCHANGED <<faults, failed_at>>
       \/ /\ profile[ruuvis[cur]] # "nochar"
          /\ faults < MaxFaults            \* subscribe()? fails
          /\ faults' = faults + 1
          /\ state' = [state EXCEPT ![ruuvis[cur]] = "Failed"]
          /\ failed_at' = ruuvis[cur]
          /\ DiscoverFailed
          /\ UNCHANGED subscribed
       \/ /\ profile[ruuvis[cur]] = "nochar"   \* the loop matches nothing
          /\ pc' = "is_connected"
          /\ UNCHANGED <<faults, state, subscribed, failed_at>>
    /\ UNCHANGED <<envVars, decVars, timeVars, notified, visible, ruuvis, adapter_i,
                   todo, cur,
                   ruuvi_datas, tick, sink, write_failed>>

\* lines 166-170: is_connected().await? inside the println
IsConnected ==
    /\ pc = "is_connected"
    /\ \/ /\ pc' = "connect_loop"
          /\ UNCHANGED <<faults, state, failed_at>>
       \/ /\ faults < MaxFaults
          /\ faults' = faults + 1
          /\ state' = [state EXCEPT ![ruuvis[cur]] = "Failed"]
          /\ failed_at' = ruuvis[cur]
          /\ DiscoverFailed
    /\ UNCHANGED <<envVars, decVars, timeVars, notified, visible, ruuvis, adapter_i,
                   todo, cur,
                   ruuvi_datas, tick, sink, write_failed, subscribed>>

\* line 172 and 179: the connect loop is through, discover returns Ok(()) and
\* start leaves its retry loop
DiscoverOk ==
    /\ pc = "connect_loop"
    /\ todo = << >>
    /\ pc' = "poll"
    /\ UNCHANGED <<envVars, decVars, timeVars, failed_at, notified, visible, faults, ruuvis,
                   adapter_i, todo,
                   cur, ruuvi_datas, tick, sink, write_failed, state, subscribed>>

\* the retry as it would be if a new discover began with an empty table
Retry_ClearsTable ==
    /\ pc = "retry"
    /\ pc' = "discover"
    /\ ruuvis' = EmptyMap
    /\ UNCHANGED <<envVars, decVars, timeVars, failed_at, notified, visible, faults,
                   adapter_i, todo,
                   cur, ruuvi_datas, tick, sink, write_failed, state, subscribed>>

\* lines 180-183: "Discovery failed, retrying...", sleep, discover again
Retry ==
    /\ pc = "retry"
    /\ pc' = "discover"
    /\ UNCHANGED <<envVars, decVars, timeVars, failed_at, notified, visible, faults, ruuvis,
                   adapter_i, todo,
                   cur, ruuvi_datas, tick, sink, write_failed, state, subscribed>>

-----------------------------------------------------------------------------
(* The poll loop of start(), update_data and send_data.                    *)

\* a tick as it would begin if update_data kept the Vec of the tick before
TickStart_KeepsBatch ==
    /\ pc = "poll"
    /\ tick' = IF tick <= MaxTicks THEN tick + 1 ELSE tick
    /\ todo' = Iter(ruuvis, iter_order)
    /\ pc' = "read_loop"
    /\ UNCHANGED <<envVars, decVars, timeVars, failed_at, notified, visible, faults, ruuvis,
                   adapter_i, cur, ruuvi_datas,
                   sink, write_failed, state, subscribed>>

\* lines 188-189, 197-198: a tick begins, update_data starts with an empty Vec
\* (tick = MaxTicks + 1 stands for every later tick of the endless loop)
TickStart ==
    /\ pc = "poll"
    /\ tick' = IF tick <= MaxTicks THEN tick + 1 ELSE tick
    /\ ruuvi_datas' = << >>
    /\ todo' = Iter(ruuvis, iter_order)
    /\ pc' = "read_loop"
    /\ UNCHANGED <<envVars, decVars, timeVars, failed_at, notified, visible, faults, ruuvis,
                   adapter_i, cur,
                   sink, write_failed, state, subscribed>>

\* lines 199-200: ruuvi.notifications() is called on the next entry of
\* self.ruuvis
ReadCall ==
    /\ pc = "read_loop"
    /\ todo # << >>
    /\ cur' = Head(todo)
    /\ todo' = Tail(todo)
    /\ notified' = << >>
    /\ pc' = "notifications"
    /\ UNCHANGED <<envVars, decVars, timeVars, failed_at, visible, faults, ruuvis, adapter_i,
                   ruuvi_datas, tick, sink, write_failed, state, subscribed>>

\* A transport call of the poll loop on the device under read fails: a new
\* error of any device, or one more of a device that has failed before.  The
\* code keeps no record of it; the history variables do.
ReadFails ==
    \/ /\ faults < MaxFaults
       /\ faults' = faults + 1
       /\ state' = [state EXCEPT ![ruuvis[cur]] = "Failed"]
       /\ failed_at' = ruuvis[cur]
    \/ /\ state[ruuvis[cur]] = "Failed"
       /\ UNCHANGED <<faults, state, failed_at>>

\* line 200: notifications().await returns; on Err the `if let` falls through
\* to the next entry, on Ok(stream) the stream is polled
NotificationsReturn ==
    /\ pc = "notifications"
    /\ \/ /\ pc' = "next"
          /\ UNCHANGED <<faults, state, failed_at>>
       \/ /\ ReadFails
          /\ pc' = "read_loop"
    /\ UNCHANGED <<envVars, decVars, timeVars, notified, visible, ruuvis, adapter_i,
                   todo, cur,
                   ruuvi_datas, tick, sink, write_failed, subscribed>>

\* the end of the stream as it would be if a device whose read fails were
\* taken out of the table
ReadNothing_DropsDevice ==
    /\ pc = "next"
    /\ ReadFails
    /\ ruuvis' = [n \in DOMAIN ruuvis \ {cur} |-> ruuvis[n]]
    /\ pc' = "read_loop"
    /\ UNCHANGED <<envVars, decVars, timeVars, notified, visible, adapter_i,
                   todo, cur,
                   ruuvi_datas, tick, sink, write_failed, subscribed>>

\* line 201: notification.next().await is None (the stream has ended): nothing
\* is pushed
ReadNothing ==
    /\ pc = "next"
    /\ ReadFails
    /\ pc' = "read_loop"
    /\ UNCHANGED <<envVars, decVars, timeVars, notified, visible, ruuvis, adapter_i,
                   todo, cur,
                   ruuvi_datas, tick, sink, write_failed, subscribed>>

\* lines 201-202: notification.next().await is Some(data), then
\* RuuviData::new(..).unwrap() and push.  A value arrives only from a device
\* that notifies and has been subscribed to, whatever reads failed before.
ReadData ==
    /\ pc = "next"
    /\ ruuvis[cur] \in subscribed
    /\ profile[ruuvis[cur]] = "healthy"
    /\ \E data \in payloads :
          /\ notified' = <<data>>
          /\ LET r == RuuviData_new(cur, ruuvis[cur], data, overflow_checks)
             IN  IF r.kind = "Ok"
                 THEN /\ ruuvi_datas' = Append(ruuvi_datas, r)
                      /\ pc' = "read_loop"
                 ELSE /\ pc' = "panicked"  \* unwrap of Err, or a panic inside
                      /\ UNCHANGED ruuvi_datas
    /\ UNCHANGED <<envVars, decVars, timeVars, failed_at, visible, faults, ruuvis, adapter_i, todo,
                   cur, tick, sink, write_failed, state, subscribed>>

\* lines 213-231: the points of a batch, in the order of the Vec
Points(datas) == [i \in 1 .. Len(datas) |-> DataPointOf(datas[i])]

\* lines 206, 213-234: all reads are through; send_data builds the points and
\* issues the write
SendData ==
    /\ pc = "read_loop"
    /\ todo = << >>
    /\ pc' = "write"
    /\ UNCHANGED <<envVars, decVars, timeVars, failed_at, notified, visible, faults, ruuvis,
                   adapter_i, todo,
                   cur, ruuvi_datas, tick, sink, write_failed, state, subscribed>>

\* lines 233-236, 189: the write returns; an Err goes through the two `?` and
\* start returns it to main
WriteReturn ==
    /\ pc = "write"
    /\ \/ /\ sink' = IF tick <= MaxTicks
                      THEN Append(sink, [tick |-> tick,
                                         points |-> Points(ruuvi_datas)])
                      ELSE sink
          /\ pc' = "sleep"
          /\ UNCHANGED <<faults, write_failed>>
       \/ /\ faults < MaxFaults
          /\ faults' = faults + 1
          /\ write_failed' = write_failed \cup {tick}
          /\ pc' = "exited"
          /\ UNCHANGED sink
    /\ UNCHANGED <<envVars, decVars, timeVars, failed_at, notified, visible, ruuvis, adapter_i,
                   todo, cur,
                   ruuvi_datas, tick, state, subscribed>>

\* line 190: sleep_until(continue_time), then the next iteration
Sleep ==
    /\ pc = "sleep"
    /\ pc' = "poll"
    /\ UNCHANGED <<envVars, decVars, timeVars, failed_at, notified, visible, faults, ruuvis,
                   adapter_i, todo,
                   cur, ruuvi_datas, tick, sink, write_failed, state, subscribed>>

-----------------------------------------------------------------------------
(* The radio environment: a device that is not absent starts advertising.  *)

Appear ==
    /\ \E a \in Addrs \ visible :
          /\ profile[a] # "absent"
          /\ visible' = visible \cup {a}
    /\ UNCHANGED <<envVars, decVars, timeVars, failed_at, notified, faults, ruuvis, pc, adapter_i,
                   todo, cur,
                   ruuvi_datas, tick, sink, write_failed, state, subscribed>>

-----------------------------------------------------------------------------

Program ==
    \/ DiscoverBegin \/ Adapters \/ StartScan \/ ScanDone \/ ScanSleep
    \/ ScanRound
    \/ ConnectCall \/ ConnectReturn \/ DiscoverServices \/ Subscribe
    \/ IsConnected \/ DiscoverOk \/ Retry
    \/ TickStart \/ ReadCall \/ NotificationsReturn \/ ReadNothing \/ ReadData
    \/ SendData \/ WriteReturn \/ Sleep

Next == Program \/ Appear

Spec == Init /\ [][Next]_vars

\* a read of update_data ends without a value: the transport's doing
ReadFailed ==
    /\ pc \in {"notifications", "next"}
    /\ pc' = "read_loop"
    /\ ruuvi_datas' = ruuvi_datas

\* The task is always scheduled when it can go on; that a transport or sink
\* call fails, for the first time or again, is never owed to it: a pending
\* next().await may pend for ever.  A device that advertises is eventually
\* listed.
FairSpec ==
    Spec /\ WF_vars(Program /\ faults' = faults /\ ~ReadFailed)
         /\ WF_vars(Appear)

-----------------------------------------------------------------------------
(* The same program under a config.json that may give two names the same   *)
(* address.  The devices are healthy or absent and send the published      *)
(* payload; what the build and the order of the map decide is left open.   *)

\* config.json "tags": an address of its own for every name, or one name
\* with the address of another
Configs ==
    {ConfigTags} \cup
    {[ConfigTags EXCEPT ![p[1]] = ConfigAddr(p[2])] :
        p \in {q \in Names \X Names : q[1] # q[2]}}

InitConfig ==
    /\ overflow_checks \in BOOLEAN
    /\ adapters \in 0 .. MaxAdapters
    /\ profile \in [Addrs -> {"healthy", "absent"}]
    /\ iter_order \in Permutations(Names)
    /\ payloads = {GoodPayload}
    /\ visible = {}
    /\ faults = 0
    /\ \E tags \in Configs : RustSniffer_new(tags, MaxDelay)
    /\ pc = "discover"
    /\ adapter_i = 0
    /\ todo = << >>
    /\ cur = 0
    /\ notified = << >>
    /\ ruuvi_datas = << >>
    /\ tick = 0
    /\ sink = << >>
    /\ write_failed = {}
    /\ state = [a \in Addrs |-> "Unseen"]
    /\ subscribed = {}
    /\ failed_at = 0
    /\ ClockUnused
    /\ raw_data = << >>
    /\ decoded = NoData
    /\ point = << >>

ConfigSpec == InitConfig /\ [][Next]_vars

-----------------------------------------------------------------------------
(* The decoder on its own: RuuviData::new applied to a buffer, and the     *)
(* DataPoint send_data makes of the result.                                *)

PayloadKinds == {"published", "zeros", "ones"}

\* byte i (from 1) of a buffer of the given kind
BaseByte(kind, i) ==
    CASE kind = "published" -> IF i <= Len(GoodPayload) THEN GoodPayload[i] ELSE 0
      [] kind = "zeros"     -> 0
      [] kind = "ones"      -> 255

\* a buffer of len bytes; the two bytes holding the 11-bit voltage and the
\* 5-bit tx power fields (bytes 13 and 14, from 0) are set freely
Payload(kind, len, b13, b14) ==
    [i \in 1 .. len |-> IF i = 14 THEN b13
                        ELSE IF i = 15 THEN b14
                        ELSE BaseByte(kind, i)]

Payloads ==
    {Payload(kind, len, b13, b14) :
        kind \in PayloadKinds, len \in 0 .. MaxPayloadLen,
        b13 \in {0, 172, 255},
        b14 \in {hi * 32 + raw : hi \in {0, 5, 7}, raw \in 0 .. 31}}

InitDecode ==
    /\ overflow_checks \in BOOLEAN
    /\ adapters = 0
    /\ profile = [a \in Addrs |-> "healthy"]
    /\ iter_order = [n \in Names |-> n]
    /\ payloads = TickPayloads
    /\ visible = {}
    /\ faults = 0
    /\ RustSniffer_new(ConfigTags, MaxDelay)
    /\ pc = "decode"
    /\ adapter_i = 0
    /\ todo = << >>
    /\ cur = 0
    /\ notified = << >>
    /\ ruuvi_datas = << >>
    /\ tick = 0
    /\ sink = << >>
    /\ write_failed = {}
    /\ state = [a \in Addrs |-> "Unseen"]
    /\ subscribed = {}
    /\ failed_at = 0
    /\ ClockUnused
    /\ raw_data \in Payloads
    /\ decoded = NoData
    /\ point = << >>

\* line 202: RuuviData::new(name, address, data.value.clone())
Decode ==
    /\ pc = "decode"
    /\ decoded = NoData
    /\ decoded' = RuuviData_new(1, ConfigAddr(1), raw_data, overflow_checks)
    /\ UNCHANGED <<envVars, sysVars, timeVars, raw_data, point>>

\* lines 215-229: the point of a decoded reading
BuildPoint ==
    /\ pc = "decode"
    /\ decoded.kind = "Ok"
    /\ point = << >>
    /\ point' = <<DataPointOf(decoded)>>
    /\ UNCHANGED <<envVars, sysVars, timeVars, raw_data, decoded>>

NextDecode == Decode \/ BuildPoint

DecodeSpec == InitDecode /\ [][NextDecode]_vars

-----------------------------------------------------------------------------
(* The clock of the poll loop on its own (lines 187-191), in whole seconds: *)
(* update_data takes any time from 0 to MaxWork.  The loop is entered with  *)
(* an empty table (discover returned Ok without an adapter); what the reads *)
(* and the write do is in Spec, here only how long they take.               *)

\* sleep(delay) in the place of sleep_until(continue_time): the pause is
\* counted from the end of the work
SleepUntil_Relative(t, deadline) == t + delay

\* tokio sleep_until: returns at the deadline, at once if it has passed
SleepUntil(t, deadline) == IF deadline > t THEN deadline ELSE t

InitTime ==
    /\ overflow_checks = TRUE
    /\ adapters = 0
    /\ profile = [a \in Addrs |-> "healthy"]
    /\ iter_order = [n \in Names |-> n]
    /\ payloads = TickPayloads
    /\ visible = {}
    /\ faults = 0
    /\ \E d \in 0 .. MaxDelay : RustSniffer_new(ConfigTags, d)
    /\ pc = "continue_time"
    /\ adapter_i = 0
    /\ todo = << >>
    /\ cur = 0
    /\ notified = << >>
    /\ ruuvi_datas = << >>
    /\ tick = 0
    /\ sink = << >>
    /\ write_failed = {}
    /\ state = [a \in Addrs |-> "Unseen"]
    /\ subscribed = {}
    /\ failed_at = 0
    /\ now \in 0 .. 1
    /\ continue_time = 0
    /\ starts = << >>
    /\ works = << >>
    /\ raw_data = << >>
    /\ decoded = NoData
    /\ point = << >>

\* line 188: let continue_time = Instant::now() + Duration::from_secs(delay)
TimedTickStart ==
    /\ pc = "continue_time"
    /\ Len(starts) < MaxTimedTicks
    /\ continue_time' = now + delay
    /\ starts' = Append(starts, now)
    /\ pc' = "update_data"
    /\ UNCHANGED <<envVars, decVars, now, works, visible, faults, ruuvis,
                   adapter_i, todo, cur, notified, ruuvi_datas, tick, sink,
                   write_failed, state, subscribed, failed_at>>

\* line 189: self.update_data().await? takes w seconds and returns Ok, or an
\* Err that ends start
TimedUpdate ==
    /\ pc = "update_data"
    /\ \E w \in 0 .. MaxWork :
          /\ now' = now + w
          /\ works' = Append(works, w)
    /\ \/ pc' = "sleep_until"
       \/ pc' = "exited"
    /\ UNCHANGED <<envVars, decVars, continue_time, starts, visible, faults,
                   ruuvis, adapter_i, todo, cur, notified, ruuvi_datas, tick,
                   sink, write_failed, state, subscribed, failed_at>>

\* line 190: sleep_until(continue_time.into()).await, then the next iteration
TimedSleep ==
    /\ pc = "sleep_until"
    /\ now' = SleepUntil(now, continue_time)
    /\ pc' = "continue_time"
    /\ UNCHANGED <<envVars, decVars, continue_time, starts, works, visible,
                   faults, ruuvis, adapter_i, todo, cur, notified, ruuvi_datas,
                   tick, sink, write_failed, state, subscribed, failed_at>>

NextTime == TimedTickStart \/ TimedUpdate \/ TimedSleep

TimeSpec == InitTime /\ [][NextTime]_vars

-----------------------------------------------------------------------------
(* Properties.                                                             *)

\* a read of update_data is under way
ReadPcs == {"notifications", "next"}

PollPcs == {"poll", "read_loop", "write", "sleep"} \cup ReadPcs

\* the addresses that have a point in some batch the sink accepted
Exported ==
    {sink[i].points[j].mac : <<i, j>> \in
        {<<i, j>> \in (1 .. Len(sink)) \X (1 .. NumTags) : j <= Len(sink[i].points)}}

\* the running read got a notification that the decoder answers with Err
DecodeErrorDelivered(n) ==
    /\ n # << >>
    /\ RuuviData_new(cur, ruuvis[cur], n[1], overflow_checks).kind = "Err"

\* C1: a decode error on the notification of one device only leaves that
\* device out of the batch: the tick goes on with the next device (and so to
\* its write), the collector does not stop.
C1_DecodeErrorContained ==
    [][(pc = "next" /\ DecodeErrorDelivered(notified'))
          => (pc' = "read_loop" /\ ruuvi_datas' = ruuvi_datas)]_vars

\* every configured device has completed subscribe
AllSubscribed == \A n \in DOMAIN tag_names : tag_names[n] \in subscribed

\* C2: a write of a tick's batch that fails does not end the poll loop: the
\* task goes on to the sleep that leads to the next tick, and nothing of the
\* failed batch reaches the sink.
C2_WriteFailureKeepsLoop ==
    [][(pc = "write" /\ AllSubscribed /\ write_failed' # write_failed)
          => (pc' = "sleep" /\ sink' = sink)]_vars

\* C3: for every buffer shorter than 18 bytes, the empty one included, the
\* decoder returns an error value: no reading and no abort.
C3_ShortBufferIsErr ==
    (pc = "decode" /\ decoded # NoData /\ Len(raw_data) < 18)
        => decoded.kind = "Err"

\* C4: for every 5-bit tx raw value in a buffer of at least 18 bytes, decode
\* succeeds with tx_power = raw * 2 - 40 as a signed integer, and the point
\* carries that value.
C4_TxPowerSigned ==
    (pc = "decode" /\ decoded # NoData /\ Len(raw_data) >= 18)
        => /\ decoded.kind = "Ok"
           /\ decoded.tx_power = (raw_data[15] % 32) * 2 - TxOffset
           /\ \A i \in 1 .. Len(point) :
                 point[i].tx_power = (raw_data[15] % 32) * 2 - TxOffset

\* the case of C5: an adapter is there, some configured device never shows up
\* and the others are healthy
C5_OneAbsentOthersHealthy ==
    /\ adapters > 0
    /\ \E a \in Addrs : profile[a] = "absent"
    /\ \E a \in Addrs : profile[a] = "healthy"
    /\ \A a \in Addrs : profile[a] \in {"absent", "healthy"}

\* C5: when one configured device never becomes visible and the others are
\* visible and healthy, the readings of the others are eventually exported
\* (in a run without transport or sink errors and without a decoder panic).
C5_OthersEventuallyExported ==
    <>( \/ ~C5_OneAbsentOthersHealthy
        \/ faults > 0
        \/ pc = "panicked"
        \/ \A a \in Addrs : profile[a] = "healthy" => a \in Exported )

\* C6: every read of a device issued in a tick ends, also the read of a
\* subscribed device that never delivers a notification (and without any
\* transport error): the tick goes on to the next device or to its write.
C6_ReadEnds ==
    (pc \in ReadPcs /\ profile[ruuvis[cur]] = "silent" /\ faults = 0)
        ~> (pc \notin ReadPcs)

\* C7: a device a poll tick reads from has completed subscribe.
C7_PolledOnlyIfSubscribed ==
    pc \in ReadPcs => ruuvis[cur] \in subscribed

\* C8: the startup phase is left, and a poll tick begins, only when every
\* configured device has reached Subscribed.
C8_PollOnlyAfterAllSubscribed ==
    pc \in PollPcs => AllSubscribed

\* C9: without a wireless adapter the collector never enters the poll loop
\* and never writes to the sink.
C9_NoAdapterNoPolling ==
    adapters = 0 => (pc \notin PollPcs /\ sink = << >>)

\* the edges of the connection state machine
Edges ==
    { <<"Unseen", "Discovered">>, <<"Discovered", "Connecting">>,
      <<"Connecting", "Connected">>, <<"Connected", "Subscribed">>,
      <<"Connecting", "Failed">>, <<"Subscribed", "Failed">>,
      <<"Failed", "Connecting">> }

\* C10: the connection state of a device changes only along the edges; so no
\* device reaches Subscribed but from Connected and a device that is Subscribed
\* is not sent back to Connecting by a discovery retry.  (The step of a failing
\* transport call is left out: it falls back to Failed from wherever the
\* device is.)
C10_OnlyEdges ==
    [][faults' = faults =>
          \A a \in Addrs :
             state'[a] = state[a] \/ <<state[a], state'[a]>> \in Edges]_vars

\* C11: a transport failure on one device leaves the connection state of every
\* other device as it is: the failing step changes no other device, and while
\* the last failure is on another device no device that is Connected or
\* Subscribed is connected anew (or subscribed anew) by the retry.
C11_FailureLeavesOthers ==
    [][/\ failed_at' # failed_at =>
            \A a \in Addrs \ {failed_at'} : state'[a] = state[a]
       /\ \A a \in Addrs \ {failed_at} :
            (failed_at # 0 /\ state[a] \in {"Connected", "Subscribed"})
               => state'[a] # "Connecting"]_vars

\* C12: Failed is not a terminal state: while the collector keeps running (the
\* poll loop comes round again and again), every device that is Failed, also
\* one that failed after polling began, is eventually connected to again.
C12_FailedIsRetried ==
    ([]<>(pc = "poll")) =>
        \A a \in Addrs : (state[a] = "Failed") ~> (state[a] = "Connecting")

\* C13: a tick in which no device gave a reading (or no device is polled) hands
\* the empty batch to the write, the tick does not end in an error and the
\* loop goes on to the sleep and the next tick.
C13_EmptyBatchIsNoError ==
    [][(ruuvi_datas = << >> /\ pc' # pc) =>
          /\ (pc = "read_loop" /\ todo = << >>) =>
                (pc' = "write" /\ ruuvi_datas' = << >>)
          /\ pc = "write" => pc' = "sleep"
          /\ pc = "sleep" => pc' = "poll"]_vars

\* the ticks whose work took longer than the period
SlowTicks == {i \in 1 .. Len(works) : works[i] > delay}

\* C14: after a single tick whose work takes longer than the period, with
\* every other tick shorter than the period (and the slow tick and its
\* successor together within two periods), the ticks from the second after
\* the slow one start on the period grid of the first tick again: the overrun
\* is not carried into all later start times.
C14_BackOnGrid ==
    \A i \in 1 .. Len(works) :
       ( /\ delay > 0
         /\ SlowTicks = {i}
         /\ \A k \in (1 .. Len(works)) \ {i} : works[k] < delay
         /\ i + 1 <= Len(works) => works[i] + works[i + 1] <= 2 * delay )
       => \A j \in (i + 2) .. Len(starts) :
              (starts[j] - starts[1]) % delay = 0

\* C15: when no tick's work takes longer than the period, tick k (from 0)
\* starts exactly at start0 + k * delay and N ticks take N * delay; and in
\* every run a tick starts at least one period after the tick before it.
C15_OnGrid ==
    /\ (SlowTicks = {}) =>
          /\ \A k \in 1 .. Len(starts) :
                starts[k] = starts[1] + (k - 1) * delay
          /\ (pc = "continue_time" /\ starts # << >>) =>
                now = starts[1] + Len(works) * delay
    /\ \A k \in 2 .. Len(starts) : starts[k] - starts[k - 1] >= delay

\* C15, witness: three ticks have started, none was slow, some took time
C15_ThreeTicksOnTime ==
    /\ Len(starts) >= 3
    /\ delay > 0
    /\ SlowTicks = {}
    /\ \E i \in 1 .. Len(works) : works[i] > 0

\* the number of batches on record once t ticks are complete
Recorded(t) == IF t <= MaxTicks THEN t ELSE MaxTicks

\* C16: every completed tick has made exactly one write, the batches are at
\* the sink in tick order, the write of tick K has returned before anything
\* of tick K+1 begins, and a batch holds at most one point for each polled
\* device.
C16_OneWritePerTickInOrder ==
    /\ \A i \in 1 .. Len(sink) : sink[i].tick = i
    /\ pc \in {"poll", "sleep"} => Len(sink) = Recorded(tick)
    /\ pc \in {"read_loop", "write"} \cup ReadPcs =>
          (tick >= 1 /\ Len(sink) = Recorded(tick - 1))
    /\ \A i \in 1 .. Len(sink) :
          /\ Len(sink[i].points) <= Cardinality(DOMAIN ruuvis)
          /\ \A j, k \in 1 .. Len(sink[i].points) :
                /\ sink[i].points[j].mac \in AddrsIn(ruuvis)
                /\ j # k => sink[i].points[j].mac # sink[i].points[k].mac

\* C16, witness: two ticks are complete, the second with a point of every
\* configured device
C16_TwoTicksWritten ==
    /\ pc = "poll"
    /\ Len(sink) = 2
    /\ Len(sink[2].points) = NumTags

\* byte i (from 0) of the buffer under decode, and the 16-bit values at i
ByteAt(i) == raw_data[i + 1]
U16At(i) == ByteAt(i) * 256 + ByteAt(i + 1)
I16At(i) == IF U16At(i) >= 32768 THEN U16At(i) - 65536 ELSE U16At(i)

\* C17: on every buffer of at least 18 bytes the decoder reads all its fields
\* and they lie at fixed places: byte 0 is skipped, temperature bytes 1-2,
\* humidity 3-4, pressure bytes 5-6 plus 50000, the accelerations the signed
\* values of bytes 7-8, 9-10, 11-12, the battery the top 11 and the tx value
\* the low 5 bits of bytes 13-14, the movement counter byte 15, the sequence
\* bytes 16-17.  The 144 bits are all that is read: bytes past 18 change
\* nothing, and a buffer one byte short gives no reading.
C17_FieldLayout ==
    (pc = "decode" /\ decoded # NoData) =>
       /\ Len(raw_data) \in 1 .. 17 => decoded.kind # "Ok"
       /\ Len(raw_data) >= 18 =>
             /\ decoded = RuuviData_new(1, ConfigAddr(1),
                                        SubSeq(raw_data, 1, 18), overflow_checks)
             /\ decoded.kind = "Ok"
             /\ decoded.temperature = U16At(1) * 5
             /\ decoded.humidity = U16At(3) * 25
             /\ decoded.pressure = U16At(5) + 50000
             /\ decoded.acceleration_x = I16At(7)
             /\ decoded.acceleration_y = I16At(9)
             /\ decoded.acceleration_z = I16At(11)
             /\ decoded.voltage = (U16At(13) \div 32) + VoltageBase
             /\ decoded.tx_power \in
                   { (ByteAt(14) % 32) * 2 - TxOffset,
                     ((ByteAt(14) % 32) * 2 - TxOffset) % U16 }
             /\ decoded.movement_counter = ByteAt(15)
             /\ decoded.measurement_sequence = U16At(16)

\* a found-table that fits the configuration: names out of the configured
\* ones, under every name the address configured for it, no address twice
TableOk(rv) ==
    /\ DOMAIN rv \subseteq DOMAIN tag_names
    /\ \A n \in DOMAIN rv : rv[n] = tag_names[n]
    /\ \A n, m \in DOMAIN rv : n # m => rv[n] # rv[m]

\* C18: in every reachable state the found-table fits the configuration, and
\* no step removes or replaces an entry of it, also not a failed discover or
\* the retry after it.
C18_TableKept ==
    /\ [](TableOk(ruuvis))
    /\ [][\A n \in DOMAIN ruuvis :
             n \in DOMAIN ruuvis' /\ ruuvis'[n] = ruuvis[n]]_vars

\* C18, witness: a discover has failed with the table filled, the retry is
\* about to run
C18_RetryWithFullTable ==
    /\ pc = "retry"
    /\ DOMAIN ruuvis = DOMAIN tag_names

\* two configured names have the same address
DuplicateAddress ==
    \E n, m \in DOMAIN tag_names : n # m /\ tag_names[n] = tag_names[m]

\* C19: with two names configured for one address the scan loop never ends:
\* the found-table never gets as large as the configured one, no connect is
\* attempted and the poll loop never starts.
C19_DuplicateNeverPolls ==
    DuplicateAddress =>
        /\ Cardinality(DOMAIN ruuvis) < Cardinality(DOMAIN tag_names)
        /\ \A a \in Addrs : state[a] \in {"Unseen", "Discovered"}
        /\ pc \notin PollPcs

\* C20: once the poll loop has started no step changes the found-table, the
\* configured name-to-address table or the period, whatever read or write
\* fails.
C20_PollKeepsTables ==
    [][(pc \in PollPcs) =>
          (ruuvis' = ruuvis /\ tag_names' = tag_names /\ delay' = delay)]_vars

\* C20, witness: a tick in which the read of a found device failed has been
\* written and the loop is at its sleep
C20_TickWithFailedRead ==
    /\ pc = "sleep"
    /\ DOMAIN ruuvis = DOMAIN tag_names
    /\ \E a \in AddrsIn(ruuvis) : state[a] = "Failed"

=============================================================================
